---- MODULE Spec2Model ----
(***************************************************************************)
(* The Goodreads scraper (scripts): main, get_top_goodreads_book_ids,      *)
(* get_goodreads_book_data, wait_scroll_and_expand and safe_get_text.      *)
(*                                                                         *)
(* A Python str is a sequence of tokens: one-character strings, plus the   *)
(* multi-character markers the code splits on ("/book/show/", "ratings",   *)
(* "pages") kept as one token each.  The empty str is <<>>.                *)
(***************************************************************************)
EXTENDS Integers, Sequences, FiniteSets, TLC

VARIABLES
    pc,          \* position of the single thread of control
    listing,     \* the listing pages the site serves: page n is listing[n]
    max_books,   \* get_top_goodreads_book_ids: parameter
    book_ids,    \* get_top_goodreads_book_ids: accumulator
    page,        \* get_top_goodreads_book_ids: page counter
    links,       \* get_top_goodreads_book_ids: hrefs of the page being scanned
    li,          \* get_top_goodreads_book_ids: position of the for loop in links
    requested,   \* history: the listing page numbers passed to driver.get
    ids,         \* main: the discovery result
    idx,         \* main: enumerate index i of the per-item loop (0 before it)
    info,        \* main: the dict returned by get_goodreads_book_data
    fields,      \* get_goodreads_book_data: the locals read so far
    steps,       \* driver operations performed by the current extraction call
    dom,         \* history: what the queries of the current extraction found
    visited,     \* history: identifiers whose detail URL was navigated, in order
    file_buf,    \* rows written to the file object and not yet flushed
    file_disk,   \* rows flushed to the output file
    driver,      \* "none", "open" or "closed" (driver.quit called)
    exc          \* the exception that propagated out of main, or "none"

vars == <<pc, listing, max_books, book_ids, page, links, li, requested, ids, idx, info,
          fields, steps, dom, visited, file_buf, file_disk, driver, exc>>

disc_vars == <<max_books, book_ids, page, links, li, requested, listing>>
item_vars == <<ids, idx, info, fields, steps, dom, visited>>
file_vars == <<file_buf, file_disk>>

---------------------------------------------------------------------------
(* Bounds of the model *)

\* links served by the whole listing, over all its pages
MaxLinks == 3
\* pages of the listing that hold links; later pages are empty
MaxPages == 2
\* largest max_books main may pass (150 in the source)
MaxBooks == 2
\* the page counter is followed this far past the last page of the listing
PageCap == MaxPages + 2

---------------------------------------------------------------------------
(* Python str, int and list operations *)

Digits == {"0", "1", "2", "3", "4", "5", "6", "7", "8", "9"}

DigitVal(c) ==
    CASE c = "0" -> 0 [] c = "1" -> 1 [] c = "2" -> 2 [] c = "3" -> 3
      [] c = "4" -> 4 [] c = "5" -> 5 [] c = "6" -> 6 [] c = "7" -> 7
      [] c = "8" -> 8 [] c = "9" -> 9

DigitChar(d) ==
    CASE d = 0 -> "0" [] d = 1 -> "1" [] d = 2 -> "2" [] d = 3 -> "3"
      [] d = 4 -> "4" [] d = 5 -> "5" [] d = 6 -> "6" [] d = 7 -> "7"
      [] d = 8 -> "8" [] d = 9 -> "9"

\* str.isdigit(): non-empty and every character a digit
IsDigitStr(s) == Len(s) > 0 /\ \A i \in 1..Len(s) : s[i] \in Digits

\* int(s) of a digit string
RECURSIVE ToInt(_)
ToInt(s) ==
    IF s = <<>> THEN 0
    ELSE 10 * ToInt(SubSeq(s, 1, Len(s) - 1)) + DigitVal(s[Len(s)])

\* str(n) of a non-negative int
RECURSIVE ToStr(_)
ToStr(n) ==
    IF n < 10 THEN <<DigitChar(n)>>
    ELSE ToStr(n \div 10) \o <<DigitChar(n % 10)>>

\* sep in s
Contains(s, sep) == \E i \in 1..Len(s) : s[i] = sep

\* index of the first sep in s (only used when Contains(s, sep))
IndexOf(s, sep) == CHOOSE i \in 1..Len(s) : s[i] = sep /\ \A j \in 1..(i - 1) : s[j] # sep

\* s.split(sep)[0]
SplitHead(s, sep) ==
    IF Contains(s, sep) THEN SubSeq(s, 1, IndexOf(s, sep) - 1) ELSE s

\* s.split(sep)[1], for s that contains sep
SplitSecond(s, sep) ==
    SplitHead(SubSeq(s, IndexOf(s, sep) + 1, Len(s)), sep)

\* s.strip()
RECURSIVE Strip(_)
Strip(s) ==
    IF s = <<>> THEN s
    ELSE IF Head(s) = " " THEN Strip(Tail(s))
    ELSE IF s[Len(s)] = " " THEN Strip(SubSeq(s, 1, Len(s) - 1))
    ELSE s

\* s.replace(c, "")
RECURSIVE Remove(_, _)
Remove(s, c) ==
    IF s = <<>> THEN s
    ELSE IF Head(s) = c THEN Remove(Tail(s), c)
    ELSE <<Head(s)>> \o Remove(Tail(s), c)

\* sep.join(list)
RECURSIVE Join(_, _)
Join(list, sep) ==
    IF list = <<>> THEN <<>>
    ELSE IF Len(list) = 1 THEN list[1]
    ELSE list[1] \o <<sep>> \o Join(Tail(list), sep)

\* x in list
InList(x, list) == \E i \in 1..Len(list) : list[i] = x

---------------------------------------------------------------------------
(* The listing the site serves *)

BOOK_SHOW == "/book/show/"

\* hrefs a listing page may hold
Hrefs ==
    { <<BOOK_SHOW, "1", ".", "x">>,      \* /book/show/1.x      id 1
      <<BOOK_SHOW, "0", "1">>,           \* /book/show/01       id 1 again
      <<BOOK_SHOW, "2">>,                \* /book/show/2        id 2
      <<BOOK_SHOW, "2", "-", "y">>,      \* /book/show/2-y      not numeric
      <<"/author/", "1">> }              \* no /book/show/ segment

RECURSIVE SeqsUpTo(_, _)
SeqsUpTo(S, n) ==
    IF n = 0 THEN {<<>>}
    ELSE LET shorter == SeqsUpTo(S, n - 1)
         IN  shorter \cup {Append(s, x) : s \in {t \in shorter : Len(t) = n - 1}, x \in S}

\* every listing of at most n pages and k links in all
RECURSIVE ListingsWithin(_, _)
ListingsWithin(n, k) ==
    IF n = 0 THEN {<<>>}
    ELSE {<<>>} \cup
         UNION { { <<p>> \o rest : rest \in ListingsWithin(n - 1, k - Len(p)) }
                 : p \in SeqsUpTo(Hrefs, k) }

\* the listings main may meet; the last page of a listing holds a link
\* (the pages past the end are empty)
Listings ==
    {site \in ListingsWithin(MaxPages, MaxLinks) : site = <<>> \/ site[Len(site)] # <<>>}

\* driver.find_elements on listing page n: nothing past the last page
PageLinks(site, n) == IF n \in 1..Len(site) THEN site[n] ELSE <<>>

---------------------------------------------------------------------------
(* Exceptions *)

\* An exception leaves main: the with block closes the file, which flushes
\* what is buffered; nothing on this path calls driver.quit.
Raise(e) ==
    /\ pc' = "crashed"
    /\ exc' = e
    /\ file_disk' = file_disk \o file_buf
    /\ file_buf' = <<>>
    /\ UNCHANGED driver

---------------------------------------------------------------------------
(* get_top_goodreads_book_ids *)

\* "/book/show/" in href
HasBookSegment(href) == Contains(href, BOOK_SHOW)

\* href.split("/book/show/")[1].split(".")[0]
BookIdPart(href) == SplitHead(SplitSecond(href, BOOK_SHOW), ".")

\* Variant of NotSeen: the membership test is left out
NotSeenUnchecked(id, acc) == TRUE

\* int(book_id_part) not in book_ids
NotSeen(id, acc) == ~InList(id, acc)

\* the identifier the for loop body appends for href, as a list of 0 or 1 ints
NewIds(href, acc) ==
    IF HasBookSegment(href)
    THEN IF IsDigitStr(BookIdPart(href)) /\ NotSeen(ToInt(BookIdPart(href)), acc)
         THEN <<ToInt(BookIdPart(href))>>
         ELSE <<>>
    ELSE <<>>

\* Variant of TargetReached: the for loop never breaks
TargetReachedNoBreak(acc, target) == FALSE

\* len(book_ids) >= max_books: the break after an append
TargetReached(acc, target) == Len(acc) >= target

\* Variant of LoopCond: the loop also gives up after the first page
LoopCondOnePage(acc, target, n) == Len(acc) < target /\ n <= 1

\* while len(book_ids) < max_books, evaluated with page = n
LoopCond(acc, target, n) == Len(acc) < target

\* main: ids = get_top_goodreads_book_ids(driver, 150); the function's entry
CallDiscover ==
    /\ pc = "m_discover"
    /\ \E n \in 0..MaxBooks : max_books' = n
    /\ book_ids' = <<>>
    /\ page' = 1
    /\ pc' = "d_while"
    /\ UNCHANGED <<listing, links, li, requested, item_vars, file_vars, driver, exc>>

DiscWhile ==
    /\ pc = "d_while"
    /\ pc' = IF LoopCond(book_ids, max_books, page) THEN "d_load" ELSE "d_return"
    /\ UNCHANGED <<disc_vars, item_vars, file_vars, driver, exc>>

\* Variant of DiscoveryError: the error is caught and noted, and the
\* identifiers collected so far are returned
DiscoveryErrorSwallowed(e) ==
    /\ pc' = "d_return"
    /\ exc' = e
    /\ UNCHANGED <<file_vars, driver>>
    /\ UNCHANGED <<max_books, book_ids, page, links, li, listing, item_vars>>

\* an exception of driver.get or of the ready-state wait: no handler
DiscoveryError(e) ==
    /\ Raise(e)
    /\ UNCHANGED <<max_books, book_ids, page, links, li, listing, item_vars>>

\* driver.get(page url), the ready-state wait, find_elements
DiscLoadPage ==
    /\ pc = "d_load"
    /\ page <= PageCap
    /\ requested' = Append(requested, page)
    /\ links' = PageLinks(listing, page)
    /\ li' = 1
    /\ pc' = "d_for"
    /\ UNCHANGED <<listing, max_books, book_ids, page, item_vars, file_vars, driver, exc>>

DiscLoadFails ==
    /\ pc = "d_load"
    /\ page <= PageCap
    /\ requested' = Append(requested, page)
    /\ \E e \in {"WebDriverException", "TimeoutException"} : DiscoveryError(e)

\* one iteration of for link in links, or its end
DiscForLink ==
    /\ pc = "d_for"
    /\ IF li > Len(links)
       THEN /\ pc' = "d_next"
            /\ UNCHANGED <<book_ids, li>>
       ELSE LET new == NewIds(links[li], book_ids)
                acc == book_ids \o new
            IN  /\ book_ids' = acc
                /\ IF new # <<>> /\ TargetReached(acc, max_books)
                   THEN pc' = "d_next" /\ UNCHANGED li
                   ELSE pc' = "d_for" /\ li' = li + 1
    /\ UNCHANGED <<listing, max_books, page, links, requested, item_vars, file_vars, driver, exc>>

\* page += 1
DiscNextPage ==
    /\ pc = "d_next"
    /\ page' = page + 1
    /\ pc' = "d_while"
    /\ UNCHANGED <<listing, max_books, book_ids, links, li, requested, item_vars, file_vars, driver, exc>>

\* return book_ids, assigned to ids in main
DiscReturn ==
    /\ pc = "d_return"
    /\ ids' = book_ids
    /\ idx' = 0
    /\ pc' = "m_for"
    /\ UNCHANGED <<disc_vars, info, fields, steps, dom, visited, file_vars, driver, exc>>

---------------------------------------------------------------------------
(* The detail page of a book: what the queries of one extraction may find. *)
(* An element is its text; a query result is the list of matching elements. *)

GenreElements == { << <<"Fantasy">>, <<" ">>, <<" ", "Fiction">> >> }
TitleElements == { << <<" ", "T">> >> }
AuthorElements == { << <<"A">>, <<"B">> >> }
RatingElements == { <<>>, << <<"4", ".", "5", "0">> >>, << <<"n", "/", "a">> >> }
RatingMetaElements ==
    { <<>>, << <<"1", ",", "2", " ", "ratings">> >>, << <<"ratings">> >> }
Paragraphs ==
    { << <<"about">> >>,
      << <<"about">>, <<" ", "3", "5", "2", " ", "Pages">>, <<"9", " ", "pages">> >>,
      << <<"pages", " ", "3">> >> }

\* safe_get_text(..., multiple=True): the stripped texts that are not empty
RECURSIVE TextsOf(_)
TextsOf(elements) ==
    IF elements = <<>> THEN <<>>
    ELSE IF Strip(Head(elements)) = <<>> THEN TextsOf(Tail(elements))
    ELSE <<Strip(Head(elements))>> \o TextsOf(Tail(elements))

\* safe_get_text(...) of one element: find_element raises when none matches
Found(elements) == elements # <<>>
TextOf(elements) == Strip(elements[1])

\* the part of s after its first sep, <<>> when s has none
AfterFirst(s, sep) ==
    IF Contains(s, sep) THEN SubSeq(s, IndexOf(s, sep) + 1, Len(s)) ELSE <<>>

RECURSIVE StripZeros(_)
StripZeros(s) ==
    IF s # <<>> /\ s[Len(s)] = "0" THEN StripZeros(SubSeq(s, 1, Len(s) - 1)) ELSE s

\* float(s) succeeds
IsFloatStr(s) ==
    LET w == SplitHead(s, ".")
        f == AfterFirst(s, ".")
    IN  /\ w = <<>> \/ IsDigitStr(w)
        /\ f = <<>> \/ IsDigitStr(f)
        /\ w # <<>> \/ f # <<>>

\* float(s): the integer part and the decimals that count
ToFloat(s) ==
    [whole |-> ToInt(SplitHead(s, ".")), frac |-> StripZeros(AfterFirst(s, "."))]

\* str(x) of a float
FloatStr(x) ==
    ToStr(x.whole) \o <<".">> \o (IF x.frac = <<>> THEN <<"0">> ELSE x.frac)

\* rating_text.split("ratings")[0].strip().replace(",", "")
CountPart(text) == Remove(Strip(SplitHead(text, "ratings")), ",")

\* str.lower(), on the tokens that have an upper case
Lower(s) == [i \in 1..Len(s) |-> IF s[i] = "Pages" THEN "pages" ELSE s[i]]

\* the for loop over p_tags: ok is FALSE when int(text.split()[0]) raises;
\* pages is <<>> for None and <<n>> for n
RECURSIVE ScanPages(_)
ScanPages(p_tags) ==
    IF p_tags = <<>> THEN [ok |-> TRUE, pages |-> <<>>]
    ELSE LET text == Lower(Strip(Head(p_tags)))
             word == SplitHead(text, " ")
         IN  IF Contains(text, "pages")
             THEN IF IsDigitStr(word)
                  THEN [ok |-> TRUE, pages |-> <<ToInt(word)>>]
                  ELSE [ok |-> FALSE, pages |-> <<>>]
             ELSE ScanPages(Tail(p_tags))

---------------------------------------------------------------------------
(* get_goodreads_book_data *)

\* the operations of one extraction, in program order
TITLE_STEPS == <<"get", "wait_title">>
READY_STEPS == <<"scroll", "wait_ready">>
FIELD_STEPS == <<"genres", "title", "authors", "rating">>

\* Variant of Caught: the handler re-raises
CaughtReraises ==
    /\ Raise("Exception")
    /\ UNCHANGED <<info, fields>>

\* Variant of Caught: the handler loads the detail page again
CaughtRetries ==
    /\ info' = <<>>
    /\ fields' = <<>>
    /\ pc' = "x_get"
    /\ UNCHANGED <<file_vars, driver, exc>>

\* except TimeoutException / except Exception: log a warning, return {}
Caught ==
    /\ info' = <<>>
    /\ fields' = <<>>
    /\ pc' = "m_write"
    /\ UNCHANGED <<file_vars, driver, exc>>

\* driver.get(url)
XGet ==
    /\ pc = "x_get"
    /\ steps' = <<"get">>
    /\ visited' = Append(visited, ids[idx])
    /\ \/ /\ pc' = "x_title"
          /\ UNCHANGED <<info, fields, file_vars, driver, exc>>
       \/ Caught
    /\ UNCHANGED <<disc_vars, ids, idx, dom>>

\* wait_scroll_and_expand: the 10 s wait for the title element
XWaitTitle ==
    /\ pc = "x_title"
    /\ steps' = Append(steps, "wait_title")
    /\ \/ /\ pc' = "x_scroll"
          /\ UNCHANGED <<info, fields, file_vars, driver, exc>>
       \/ Caught
    /\ UNCHANGED <<disc_vars, ids, idx, dom, visited>>

\* wait_scroll_and_expand: scroll to the bottom, the 5 s ready-state wait
XScroll ==
    /\ pc = "x_scroll"
    /\ steps' = steps \o READY_STEPS
    /\ \/ /\ pc' = "x_more"
          /\ UNCHANGED <<info, fields, file_vars, driver, exc>>
       \/ Caught
    /\ UNCHANGED <<disc_vars, ids, idx, dom, visited>>

\* wait_scroll_and_expand: the show-more button is clicked, or the failure
\* to find or click it is logged; either way the function returns
XShowMore ==
    /\ pc = "x_more"
    /\ steps' = Append(steps, "show_more")
    /\ pc' = "x_fields"
    /\ UNCHANGED <<disc_vars, ids, idx, dom, visited, info, fields, file_vars, driver, exc>>

\* genres, title, authors, author, rating
XFields ==
    /\ pc = "x_fields"
    /\ steps' = steps \o FIELD_STEPS
    /\ \E g \in GenreElements, t \in TitleElements, a \in AuthorElements,
          r \in RatingElements :
       /\ dom' = [genres |-> g, title |-> t, authors |-> a, rating |-> r]
       /\ IF Found(r) /\ IsFloatStr(TextOf(r))
          THEN /\ fields' = [genres |-> TextsOf(g),
                             title |-> TextOf(t),
                             author |-> Join(TextsOf(a), ", "),
                             rating |-> ToFloat(TextOf(r))]
               /\ pc' = "x_meta"
               /\ UNCHANGED <<info, file_vars, driver, exc>>
          ELSE Caught
    /\ UNCHANGED <<disc_vars, ids, idx, visited>>

\* rating_text, ratings_count
XRatingMeta ==
    /\ pc = "x_meta"
    /\ steps' = Append(steps, "rating_meta")
    /\ \E m \in RatingMetaElements :
       /\ dom' = [genres |-> dom.genres, title |-> dom.title, authors |-> dom.authors,
                  rating |-> dom.rating, rating_meta |-> m]
       /\ IF Found(m) /\ IsDigitStr(CountPart(TextOf(m)))
          THEN /\ fields' = [genres |-> fields.genres,
                             title |-> fields.title,
                             author |-> fields.author,
                             rating |-> fields.rating,
                             ratings_count |-> ToInt(CountPart(TextOf(m)))]
               /\ pc' = "x_pages"
               /\ UNCHANGED <<info, file_vars, driver, exc>>
          ELSE Caught
    /\ UNCHANGED <<disc_vars, ids, idx, visited>>

\* the scan of the paragraphs for the page count, and the return of the dict
XPages ==
    /\ pc = "x_pages"
    /\ steps' = Append(steps, "paragraphs")
    /\ \E p \in Paragraphs :
       /\ dom' = [genres |-> dom.genres, title |-> dom.title, authors |-> dom.authors,
                  rating |-> dom.rating, rating_meta |-> dom.rating_meta,
                  paragraphs |-> p]
       /\ IF ScanPages(p).ok
          THEN /\ info' = [title |-> fields.title,
                           author |-> fields.author,
                           rating |-> fields.rating,
                           genres |-> fields.genres,
                           pages |-> ScanPages(p).pages,
                           ratings_count |-> fields.ratings_count]
               /\ fields' = <<>>
               /\ pc' = "m_write"
               /\ UNCHANGED <<file_vars, driver, exc>>
          ELSE Caught
    /\ UNCHANGED <<disc_vars, ids, idx, visited>>

---------------------------------------------------------------------------
(* main *)

\* the configured field names: the keys of the dict get_goodreads_book_data
\* returns (csv.DictWriter raises on a key that is not a field name)
CSV_FIELDNAMES == <<"title", "author", "rating", "genres", "pages", "ratings_count">>

\* writer.writeheader(): one cell per field name
HeaderRow ==
    [kind |-> "header", src |-> 0,
     cells |-> [i \in 1..Len(CSV_FIELDNAMES) |-> <<CSV_FIELDNAMES[i]>>]]

\* if isinstance(info.get("genres"), list): info["genres"] = ", ".join(...)
Flatten(d) ==
    IF "genres" \in DOMAIN d THEN [d EXCEPT !.genres = Join(@, ", ")] ELSE d

\* the cell csv.DictWriter writes for field f of dict d: "" for a missing key
\* and for None, str(value) otherwise
CsvCell(d, f) ==
    IF f \notin DOMAIN d THEN <<>>
    ELSE CASE f = "rating" -> FloatStr(d[f])
           [] f = "pages" -> IF d[f] = <<>> THEN <<>> ELSE ToStr(d[f][1])
           [] f = "ratings_count" -> ToStr(d[f])
           [] OTHER -> d[f]

\* writer.writerow(d); src (history) is the identifier d was extracted for
DataRow(d, id) ==
    [kind |-> "data", src |-> id,
     cells |-> [i \in 1..Len(CSV_FIELDNAMES) |-> CsvCell(d, CSV_FIELDNAMES[i])]]

\* Variant of RowsWritten: an empty dict is not written
RowsWrittenSkipEmpty(d, id) == IF d = <<>> THEN <<>> ELSE <<DataRow(d, id)>>

\* the rows writer.writerow(info) adds to the file object
RowsWritten(d, id) == <<DataRow(d, id)>>

\* Variant of Flushed: the flush is left out
FlushedNothing(disk, buf) == [disk |-> disk, buf |-> buf]

\* file.flush(): what is on disk and what stays buffered afterwards (the
\* file object is taken to hold its rows until flushed or closed)
Flushed(disk, buf) == [disk |-> disk \o buf, buf |-> <<>>]

\* makedirs, open(output_path, "w"), writer.writeheader()
MainOpen ==
    /\ pc = "m_open"
    /\ file_buf' = <<HeaderRow>>
    /\ file_disk' = <<>>
    /\ pc' = "m_init_driver"
    /\ UNCHANGED <<disc_vars, item_vars, driver, exc>>

\* driver = init_driver(headless=True)
MainInitDriver ==
    /\ pc = "m_init_driver"
    /\ driver' = "open"
    /\ pc' = "m_discover"
    /\ UNCHANGED <<disc_vars, item_vars, file_vars, exc>>

\* for i, book_id in enumerate(ids, 1): the next item, or the end of the loop
MainFor ==
    /\ pc = "m_for"
    /\ IF idx < Len(ids)
       THEN /\ idx' = idx + 1
            /\ steps' = <<>>
            /\ dom' = <<>>
            /\ pc' = "x_get"
       ELSE /\ pc' = "m_quit"
            /\ UNCHANGED <<idx, steps, dom>>
    /\ UNCHANGED <<disc_vars, ids, info, fields, visited, file_vars, driver, exc>>

\* the genres join and writer.writerow(info)
MainWrite ==
    /\ pc = "m_write"
    /\ info' = Flatten(info)
    /\ file_buf' = file_buf \o RowsWritten(Flatten(info), ids[idx])
    /\ pc' = "m_flush"
    /\ UNCHANGED <<disc_vars, ids, idx, fields, steps, dom, visited, file_disk, driver, exc>>

\* writer.writerow(info) raises (the file cannot be written)
MainWriteFails ==
    /\ pc = "m_write"
    /\ Raise("OSError")
    /\ UNCHANGED <<disc_vars, item_vars>>

\* file.flush()
MainFlush ==
    /\ pc = "m_flush"
    /\ file_disk' = Flushed(file_disk, file_buf).disk
    /\ file_buf' = Flushed(file_disk, file_buf).buf
    /\ pc' = "m_for"
    /\ UNCHANGED <<disc_vars, item_vars, driver, exc>>

\* driver.quit(), then the with block closes the file
MainQuit ==
    /\ pc = "m_quit"
    /\ driver' = "closed"
    /\ file_disk' = file_disk \o file_buf
    /\ file_buf' = <<>>
    /\ pc' = "done"
    /\ UNCHANGED <<disc_vars, item_vars, exc>>

---------------------------------------------------------------------------
(* The run of main on any listing *)

Init ==
    /\ pc = "m_open"
    /\ listing \in Listings
    /\ max_books = 0
    /\ book_ids = <<>>
    /\ page = 0
    /\ links = <<>>
    /\ li = 0
    /\ requested = <<>>
    /\ ids = <<>>
    /\ idx = 0
    /\ info = <<>>
    /\ fields = <<>>
    /\ steps = <<>>
    /\ dom = <<>>
    /\ visited = <<>>
    /\ file_buf = <<>>
    /\ file_disk = <<>>
    /\ driver = "none"
    /\ exc = "none"

Next ==
    \/ MainOpen
    \/ MainInitDriver
    \/ CallDiscover
    \/ DiscWhile
    \/ DiscLoadPage
    \/ DiscLoadFails
    \/ DiscForLink
    \/ DiscNextPage
    \/ DiscReturn
    \/ MainFor
    \/ XGet
    \/ XWaitTitle
    \/ XScroll
    \/ XShowMore
    \/ XFields
    \/ XRatingMeta
    \/ XPages
    \/ MainWrite
    \/ MainWriteFails
    \/ MainFlush
    \/ MainQuit

Spec == Init /\ [][Next]_vars

---------------------------------------------------------------------------
(* The run of main up to the return of get_top_goodreads_book_ids *)

NextDiscovery ==
    \/ MainOpen
    \/ MainInitDriver
    \/ CallDiscover
    \/ DiscWhile
    \/ DiscLoadPage
    \/ DiscLoadFails
    \/ DiscForLink
    \/ DiscNextPage

DiscoverySpec == Init /\ [][NextDiscovery]_vars

\* the single thread of control always takes its next step
FairDiscoverySpec == DiscoverySpec /\ WF_vars(NextDiscovery)

---------------------------------------------------------------------------
(* Vocabulary of the properties *)

\* the links of the whole listing, page after page
RECURSIVE AllLinks(_)
AllLinks(site) == IF site = <<>> THEN <<>> ELSE Head(site) \o AllLinks(Tail(site))

\* the numeric identifier a link carries, as a list of 0 or 1 ints
NumericId(href) ==
    IF HasBookSegment(href) /\ IsDigitStr(BookIdPart(href))
    THEN <<ToInt(BookIdPart(href))>>
    ELSE <<>>

Occurs(stream, id) == \E i \in 1..Len(stream) : NumericId(stream[i]) = <<id>>

IdsIn(stream) ==
    {NumericId(stream[i])[1] : i \in {j \in 1..Len(stream) : NumericId(stream[j]) # <<>>}}

\* where id is first encountered in stream
FirstPos(stream, id) ==
    CHOOSE i \in 1..Len(stream) :
        /\ NumericId(stream[i]) = <<id>>
        /\ \A j \in 1..(i - 1) : NumericId(stream[j]) # <<id>>

\* how many distinct identifiers are first encountered before id
Rank(stream, id) ==
    Cardinality({o \in IdsIn(stream) : FirstPos(stream, o) < FirstPos(stream, id)})

\* the listing holds at least n distinct numeric identifiers
Enough(site, n) == Cardinality(IdsIn(AllLinks(site))) >= n

Distinct(acc) == \A i, j \in 1..Len(acc) : i # j => acc[i] # acc[j]

FirstSeenOrder(acc, stream) ==
    /\ \A k \in 1..Len(acc) : Occurs(stream, acc[k])
    /\ \A j, k \in 1..Len(acc) :
          j < k => FirstPos(stream, acc[j]) < FirstPos(stream, acc[k])

DiscoveryPcs == {"d_while", "d_load", "d_for", "d_next", "d_return"}
ExtractionPcs == {"x_get", "x_title", "x_scroll", "x_more", "x_fields", "x_meta", "x_pages"}
ItemLoopPcs == ExtractionPcs \cup {"m_for", "m_write", "m_flush"}
DiscoveryExceptions == {"WebDriverException", "TimeoutException"}

AllRows == file_disk \o file_buf
DataRowsOf(rows) == SelectSeq(rows, LAMBDA r : r.kind = "data")
EmptyCells == [i \in 1..Len(CSV_FIELDNAMES) |-> <<>>]

---------------------------------------------------------------------------
(* C1 *)

BoundedDistinctFirstSeen(acc) ==
    /\ Len(acc) <= max_books
    /\ Distinct(acc)
    /\ FirstSeenOrder(acc, AllLinks(listing))

\* C1: at every step of the discovery loop and when it returns, the
\* accumulator book_ids (the result) has at most max_books elements,
\* no element twice, and its elements in the order in which they are first
\* encountered over pages 1, 2, ...
C1_BoundedDistinctFirstSeen == BoundedDistinctFirstSeen(book_ids)

\* discovery returned two identifiers, the second found on page 2 after a
\* link that repeats the first
C1_Witness ==
    /\ pc = "d_return"
    /\ Len(book_ids) = 2
    /\ requested = <<1, 2>>
    /\ \E i \in 1..Len(listing[2]) :
          /\ NumericId(listing[2][i]) = <<book_ids[1]>>
          /\ i < FirstPos(listing[2], book_ids[2])

---------------------------------------------------------------------------
(* C6 *)

\* C6: when discovery returns, the result is exactly the first max_books
\* distinct numeric identifiers of the listing in encountered order, the for
\* loop stands on the link that completed the target, and the pages
\* requested are 1..n with the target not yet met on pages 1..n-1.
C6_ExactlyFirstTarget ==
    pc = "d_return" =>
        /\ Len(book_ids) = max_books
        /\ \A k \in 1..Len(book_ids) :
              /\ Occurs(AllLinks(listing), book_ids[k])
              /\ Rank(AllLinks(listing), book_ids[k]) = k - 1
        /\ requested = [i \in 1..Len(requested) |-> i]
        /\ max_books = 0 => requested = <<>>
        /\ max_books > 0 =>
              /\ requested # <<>>
              /\ li \in 1..Len(links)
              /\ NumericId(links[li]) = <<book_ids[max_books]>>
              /\ ~Enough(SubSeq(listing, 1, Len(requested) - 1), max_books)

\* the target was met on page 2, and the link after the one that met it
\* carries an identifier that is not in the result
C6_Witness ==
    /\ pc = "d_return"
    /\ requested = <<1, 2>>
    /\ li < Len(links)
    /\ NumericId(links[li + 1]) # <<>>
    /\ ~InList(NumericId(links[li + 1])[1], book_ids)

---------------------------------------------------------------------------
(* C9 *)

\* C9: discovery leaves its loop only with the target met, so it returns
\* only on a listing that holds max_books distinct identifiers.  With every
\* step taken, a run ends in one of three ways: a page load fails; the
\* listing holds max_books distinct identifiers and discovery returns; or
\* it does not, discovery never returns and the page counter passes every
\* page number up to the cap.
C9_TerminatesIffEnough ==
    /\ [](pc = "d_return" => Len(book_ids) >= max_books /\ Enough(listing, max_books))
    /\ <>(\/ pc = "crashed"
          \/ pc = "d_return" /\ Enough(listing, max_books)
          \/ page > PageCap /\ ~Enough(listing, max_books))

\* the listing ran out before the target and the loop is still asking for
\* pages, past the last page of the listing
C9_Witness ==
    /\ pc = "d_load"
    /\ ~Enough(listing, max_books)
    /\ page > Len(listing) + 1
    /\ book_ids # <<>>

---------------------------------------------------------------------------
(* C2 *)

\* C2: when main has ended, normally or by an exception, a browser session
\* that was created has been closed.
C2_SessionClosedOnEveryExit ==
    pc \in {"done", "crashed"} /\ driver # "none" => driver = "closed"

---------------------------------------------------------------------------
(* C3 *)

\* what C3 asks of one step
ExtractionStepReturns ==
    pc \in ExtractionPcs =>
          /\ exc' = "none"
          /\ pc' \in ExtractionPcs \cup {"m_write"}
          /\ pc' = "m_write" =>
                \/ info' = <<>>
                \/ DOMAIN info' = {CSV_FIELDNAMES[i] : i \in 1..Len(CSV_FIELDNAMES)}
          /\ pc = "x_title" /\ pc' # "x_scroll" =>
                /\ pc' = "m_write"
                /\ info' = <<>>
                /\ steps' = TITLE_STEPS

\* C3: no step of get_goodreads_book_data lets an exception out: each leads
\* to the next step or to the return of a dict, which is {} or holds every
\* field.  When the wait for the title fails the dict is {} and the only
\* operations performed are the navigation and that wait.
C3_ExtractionNeverRaises == [][ExtractionStepReturns]_vars

\* an extraction returned {} after the navigation and the title wait only
C3_Witness ==
    /\ pc = "m_write"
    /\ steps = TITLE_STEPS
    /\ info = <<>>
    /\ exc = "none"

---------------------------------------------------------------------------
(* C4 *)

\* C4: the k-th data row is the row of the k-th identifier of ids; when
\* main completes the file holds one data row per identifier; a failed
\* extraction (info = {}) writes one row of empty cells for its identifier.
C4_OneRowPerIdentifier ==
    LET data == DataRowsOf(AllRows)
    IN  /\ Len(data) <= Len(ids)
        /\ \A k \in 1..Len(data) : data[k].src = ids[k]
        /\ pc = "done" =>
              /\ Len(DataRowsOf(file_disk)) = Len(ids)
              /\ file_buf = <<>>
        /\ pc = "m_flush" =>
              /\ Len(data) = idx
              /\ info = <<>> => data[idx].cells = EmptyCells

\* main completed on two identifiers: the first extraction failed and has
\* its empty row, the second has a row with a title
C4_Witness ==
    /\ pc = "done"
    /\ Len(ids) = 2
    /\ Len(DataRowsOf(file_disk)) = 2
    /\ DataRowsOf(file_disk)[1].cells = EmptyCells
    /\ DataRowsOf(file_disk)[2].cells[1] # <<>>

---------------------------------------------------------------------------
(* C5 *)

\* C5: the header is the first row written and the only header; while item
\* idx is navigated and extracted the rows of items 1..idx-1 are on disk
\* and no data row is buffered; between items the rows of all finished
\* items are on disk; when the row write raises nothing finished is lost.
C5_FlushPerRow ==
    LET on_disk == Len(DataRowsOf(file_disk))
        buffered == Len(DataRowsOf(file_buf))
    IN  /\ AllRows # <<>> =>
              /\ AllRows[1] = HeaderRow
              /\ \A i \in 2..Len(AllRows) : AllRows[i].kind = "data"
        /\ pc \in ExtractionPcs \cup {"m_write"} => on_disk = idx - 1 /\ buffered = 0
        /\ pc = "m_flush" => on_disk = idx - 1 /\ buffered = 1
        /\ pc \in {"m_for", "m_quit", "done"} =>
              /\ on_disk = idx
              /\ buffered = 0
              /\ idx > 0 => file_buf = <<>>
        /\ pc = "crashed" /\ exc = "OSError" => on_disk = idx - 1 /\ file_buf = <<>>

\* the second item is about to be navigated with the header and the first
\* row on disk
C5_Witness ==
    /\ pc = "x_get"
    /\ idx = 2
    /\ file_disk = <<HeaderRow, DataRow(info, ids[1])>>
    /\ file_buf = <<>>

---------------------------------------------------------------------------
(* C7 *)

\* C7: when the navigation to a listing page or its ready-state wait fails,
\* the exception leaves main: nothing is returned to main (ids stays empty
\* whatever was collected), no detail page is visited and the file holds
\* the header and no data row.
C7_DiscoveryErrorAbortsRun ==
    exc \in DiscoveryExceptions =>
        /\ pc = "crashed"
        /\ requested # <<>> /\ requested[Len(requested)] = page
        /\ ids = <<>>
        /\ visited = <<>>
        /\ file_disk = <<HeaderRow>>
        /\ file_buf = <<>>

\* the second listing page failed to load after identifiers were collected
\* on the first
C7_Witness ==
    /\ pc = "crashed"
    /\ exc = "TimeoutException"
    /\ requested = <<1, 2>>
    /\ book_ids # <<>>
    /\ ids = <<>>

---------------------------------------------------------------------------
(* C8 *)

MetaMissing == "rating_meta" \in DOMAIN dom /\ ~Found(dom.rating_meta)
NoPagesMarker ==
    /\ "paragraphs" \in DOMAIN dom
    /\ ScanPages(dom.paragraphs).ok
    /\ ScanPages(dom.paragraphs).pages = <<>>

\* the dict holds the title, author, rating and genres that were read
Populated(d) ==
    /\ d # <<>>
    /\ d.title = TextOf(dom.title)
    /\ d.author = Join(TextsOf(dom.authors), ", ")
    /\ d.rating = ToFloat(TextOf(dom.rating))
    /\ d.genres = TextsOf(dom.genres)

\* C8: when the title, author, rating and genres were read and then the
\* rating-metadata element is missing, or no paragraph holds the page
\* marker, the returned dict still holds the fields that were read.
C8_OptionalFieldsTolerated ==
    pc = "m_write" /\ (MetaMissing \/ NoPagesMarker) => Populated(info)

\* The half of C8 about the page count: no paragraph with the marker leaves
\* pages None in a dict that holds the other fields.
C8_NoPagesMarkerTolerated ==
    pc = "m_write" /\ NoPagesMarker => Populated(info) /\ info.pages = <<>>

---------------------------------------------------------------------------
(* C10 *)

PhaseOf(p) ==
    CASE p = "m_open" -> 0
      [] p = "m_init_driver" -> 1
      [] p = "m_discover" -> 2
      [] p \in DiscoveryPcs -> 3
      [] p \in ItemLoopPcs -> 4
      [] p = "m_quit" -> 5
      [] p \in {"done", "crashed"} -> 6

\* the position of a step in the processing of one item
ItemPos(p) ==
    CASE p = "x_get" -> 1 [] p = "x_title" -> 2 [] p = "x_scroll" -> 3
      [] p = "x_more" -> 4 [] p = "x_fields" -> 5 [] p = "x_meta" -> 6
      [] p = "x_pages" -> 7 [] p = "m_write" -> 8 [] p = "m_flush" -> 9
      [] p = "m_for" -> 10

\* what C10 asks of one step
StepForward ==
       /\ PhaseOf(pc') >= PhaseOf(pc)
       /\ pc # "d_return" => ids' = ids
       /\ pc \in ItemLoopPcs /\ pc' \in ItemLoopPcs =>
             \/ idx' = idx /\ ItemPos(pc') > ItemPos(pc)
             \/ pc = "m_for" /\ pc' = "x_get" /\ idx' = idx + 1
       /\ pc = "m_flush" => pc' = "m_for"
       /\ pc = "m_for" =>
             \/ idx < Len(ids) /\ pc' = "x_get"
             \/ idx = Len(ids) /\ pc' = "m_quit"
       /\ visited' = SubSeq(ids', 1, Len(visited'))
       /\ pc' \in (ItemLoopPcs \ {"x_get"}) =>
             Len(visited') = idx'
       /\ pc' = "done" => visited' = ids'

\* C10: every step of main moves forward: the phase never decreases, so
\* discovery is entered once and its result is assigned once; within the
\* item loop a step stays on the item and moves on in it, or starts the
\* next item; after the flush of item i comes item i+1 or the end, whatever
\* item i returned; the detail pages navigated are those of ids, once each
\* and in order.
C10_ForwardOnly == [][StepForward]_vars

\* the loop ended after two items, the first extracted in full and the
\* second failed
C10_Witness ==
    /\ pc = "m_quit"
    /\ visited = ids
    /\ Len(ids) = 2
    /\ DataRowsOf(file_disk)[1].cells # EmptyCells
    /\ DataRowsOf(file_disk)[2].cells = EmptyCells

====
